---------------------------- MODULE Spec2Model ----------------------------
(***************************************************************************)
(* State-machine model of the datalink-share-api service                   *)
(* (src/app/main.py, src/app/models.py): a FastAPI process that keeps a    *)
(* list of proposed chains and a set of participants in memory and in      *)
(* two JSON files.                                                         *)
(*                                                                         *)
(* Strings that the program compares (previousHash, hash, serialised       *)
(* JSON) are modelled as finite sequences of naturals, so that two strings *)
(* are equal exactly when the sequences are.  sha256 is modelled as an     *)
(* injective function of its input.                                        *)
(***************************************************************************)
EXTENDS Integers, Sequences, FiniteSets, TLC

VARIABLES
    chains,            \* main.py global `chains`: list of chain dicts
    participants,      \* main.py global `participants`: set of (ipAddress, uuid)
    chainFile,         \* content of data/blockchain.json, or NoFile
    participantsFile,  \* content of data/participants.json, or NoFile
    now,               \* the system clock: the latest time the service has read
    resp,              \* the request handled last and the response it got
    probe,             \* validator harness: a candidate ledger and its verdict
    reqs,              \* event loop: the requests that arrived, with their locals
    loop               \* event loop: the request whose coroutine is running, or 0

vars == <<chains, participants, chainFile, participantsFile, now, resp, probe, reqs, loop>>

---------------------------------------------------------------------------
(* Bounds and input domains *)

MaxEntries == 3        \* cap on the number of blocks held, over all of `chains`
MaxBlocks == 2         \* cap on len(blocks) of a ledger validated on its own

Times == {0, 1}        \* instants, as datetime.now(timezone.utc).isoformat() names them
IPs == {1}             \* ipAddress strings other than "0.0.0.0"
UUIDs == {1, 2}        \* uuid strings other than the all-zero uuid

---------------------------------------------------------------------------
(* Strings *)

StrZero == <<0>>       \* the string "0"
StrEmpty == <<>>       \* the string ""
ZeroIP == 0            \* "0.0.0.0"
ZeroUUID == 0          \* "00000000-0000-0000-0000-000000000000"
GenesisContent == 0    \* "Genesis block"
NoneValue == 0         \* JSON null / Python None
NoFile == [exists |-> FALSE]

\* A string as it appears inside a serialisation: delimited, here by its length.
Quoted(s) == <<Len(s)>> \o s

---------------------------------------------------------------------------
(* models.py *)

MessageSender(ip, uuid) == [ipAddress |-> ip, uuid |-> uuid]

Message(sender, recipient, content, timestamp) ==
    [sender |-> sender, recipient |-> recipient, content |-> content,
     timestamp |-> timestamp]

Block(index, previousHash, timestamp, message, proof, hash) ==
    [index |-> index, previousHash |-> previousHash, timestamp |-> timestamp,
     message |-> message, proof |-> proof, hash |-> hash]

Participant(ip, uuid) == [ipAddress |-> ip, uuid |-> uuid]

ChainProposal(blocks, network, status) ==
    [blocks |-> blocks, network |-> network, status |-> status]

---------------------------------------------------------------------------
(* calculate_hash *)

\* message.dict() under json.dumps(sort_keys=True):
\* content, recipient{ipAddress, uuid}, sender{ipAddress, uuid}, timestamp
MessageJson(m) ==
    <<m.content, m.recipient.ipAddress, m.recipient.uuid,
      m.sender.ipAddress, m.sender.uuid, m.timestamp>>

\* hashlib.sha256(...).hexdigest(), taken to be injective
SHA == 256
sha256(bytes) == <<SHA>> \o bytes

\* keys sorted: index, message, previousHash, proof, timestamp
calculate_hash(block) ==
    sha256(<<block.index>> \o MessageJson(block.message)
           \o Quoted(block.previousHash) \o <<block.proof, block.timestamp>>)

---------------------------------------------------------------------------
(* is_chain_valid *)

\* is_chain_valid with lines 196-197 left out: a block's stored hash is trusted
is_chain_valid_TrustsHash(blocks) ==
    IF Len(blocks) = 0 THEN FALSE
    ELSE IF \/ blocks[1].index # 1
            \/ blocks[1].previousHash # StrZero
            \/ blocks[1].hash # calculate_hash(blocks[1])
         THEN FALSE
    ELSE \A i \in 2..Len(blocks) :
            ~(blocks[i].previousHash # calculate_hash(blocks[i - 1]))

\* is_chain_valid with the genesis index test of line 185 left out
is_chain_valid_AnyFirstIndex(blocks) ==
    IF Len(blocks) = 0 THEN FALSE
    ELSE IF \/ blocks[1].previousHash # StrZero
            \/ blocks[1].hash # calculate_hash(blocks[1])
         THEN FALSE
    ELSE \A i \in 2..Len(blocks) :
            /\ ~(blocks[i].previousHash # calculate_hash(blocks[i - 1]))
            /\ ~(blocks[i].hash # calculate_hash(blocks[i]))

is_chain_valid(blocks) ==
    IF Len(blocks) = 0 THEN FALSE
    ELSE IF \/ blocks[1].index # 1
            \/ blocks[1].previousHash # StrZero
            \/ blocks[1].hash # calculate_hash(blocks[1])
         THEN FALSE
    ELSE \A i \in 2..Len(blocks) :
            /\ ~(blocks[i].previousHash # calculate_hash(blocks[i - 1]))
            /\ ~(blocks[i].hash # calculate_hash(blocks[i]))

---------------------------------------------------------------------------
(* json.dumps(chain, sort_keys=True) and json.loads *)

\* a block dict, keys sorted: hash, index, message, previousHash, proof, timestamp
BlockJson(b) ==
    Quoted(b.hash) \o <<b.index>> \o MessageJson(b.message)
    \o Quoted(b.previousHash) \o <<b.proof, b.timestamp>>

RECURSIVE BlocksJson(_)
BlocksJson(blocks) ==
    IF blocks = <<>> THEN <<>>
    ELSE BlockJson(Head(blocks)) \o BlocksJson(Tail(blocks))

BoolJson(b) == IF b THEN 1 ELSE 0

\* a chain dict, keys sorted: blocks, network{lastUpdated, nodes, version},
\* status{error, isValid}
json_dumps(chain) ==
    <<Len(chain.blocks)>> \o BlocksJson(chain.blocks)
    \o <<chain.network.lastUpdated, Len(chain.network.nodes), chain.network.version>>
    \o <<chain.status.error, BoolJson(chain.status.isValid)>>

\* the string that starts at position pos of s, and the position after it
ParseQuoted(s, pos) ==
    [val |-> SubSeq(s, pos + 1, pos + s[pos]), next |-> pos + 1 + s[pos]]

ParseBlock(s, pos) ==
    LET h == ParseQuoted(s, pos)
        i == h.next
        m == i + 1
        p == ParseQuoted(s, m + 6)
    IN  [val |-> Block(s[i], p.val, s[p.next + 1],
                       Message(MessageSender(s[m + 3], s[m + 4]),
                               MessageSender(s[m + 1], s[m + 2]),
                               s[m], s[m + 5]),
                       s[p.next], h.val),
         next |-> p.next + 2]

RECURSIVE ParseBlocks(_, _, _)
ParseBlocks(s, pos, n) ==
    IF n = 0 THEN [val |-> <<>>, next |-> pos]
    ELSE LET b == ParseBlock(s, pos)
             rest == ParseBlocks(s, b.next, n - 1)
         IN  [val |-> <<b.val>> \o rest.val, next |-> rest.next]

json_loads(s) ==
    LET bs == ParseBlocks(s, 2, s[1])
        q == bs.next
    IN  [blocks |-> bs.val,
         network |-> [nodes |-> <<>>, version |-> s[q + 2], lastUpdated |-> s[q]],
         status |-> [isValid |-> s[q + 4] = 1, error |-> s[q + 3]]]

---------------------------------------------------------------------------
(* get_majority_chain *)

EmptyDict == [empty |-> TRUE]      \* the dict {}

Count(strs, x) == Cardinality({i \in 1..Len(strs) : strs[i] = x})

\* a longest-chain rule in place of the count: the longest serialisation wins
most_common_Longest(strs) ==
    LET best == {i \in 1..Len(strs) : \A j \in 1..Len(strs) : Len(strs[j]) <= Len(strs[i])}
        first == CHOOSE i \in best : \A j \in best : i <= j
    IN  strs[first]

\* ties broken towards the key counted last
most_common_LastWins(strs) ==
    LET best == {i \in 1..Len(strs) :
                    \A j \in 1..Len(strs) : Count(strs, strs[j]) <= Count(strs, strs[i])}
        last == CHOOSE i \in best : \A j \in best : j <= i
    IN  strs[last]

\* Counter(strs).most_common(1)[0][0]: the Counter keeps its keys in order of
\* first occurrence and max() keeps the first key of maximal count
most_common(strs) ==
    LET best == {i \in 1..Len(strs) :
                    \A j \in 1..Len(strs) : Count(strs, strs[j]) <= Count(strs, strs[i])}
        first == CHOOSE i \in best : \A j \in best : i <= j
    IN  strs[first]

majority_of(cs) ==
    IF cs = <<>> THEN EmptyDict
    ELSE json_loads(most_common([i \in 1..Len(cs) |-> json_dumps(cs[i])]))

get_majority_chain == majority_of(chains)

---------------------------------------------------------------------------
(* save_chain, save_participants, load_data *)

\* only the ledger stored last is written
save_chain_LatestOnly(cs) ==
    [exists |-> TRUE,
     chains |-> IF cs = <<>> THEN <<>> ELSE <<json_dumps(cs[Len(cs)])>>]

\* json.dump({"chains": chains}, f): the file holds each chain's serialisation
save_chain(cs) ==
    [exists |-> TRUE, chains |-> [i \in 1..Len(cs) |-> json_dumps(cs[i])]]

\* the set is written as a list of {"ipAddress", "uuid"} dicts
save_participants(ps) ==
    [exists |-> TRUE, participants |-> {Participant(p[1], p[2]) : p \in ps}]

load_chains(file) ==
    IF file.exists THEN [i \in 1..Len(file.chains) |-> json_loads(file.chains[i])]
    ELSE <<>>

load_participants(file) ==
    IF file.exists THEN {<<p.ipAddress, p.uuid>> : p \in file.participants}
    ELSE {}

---------------------------------------------------------------------------
(* Request inputs *)

Identities == {<<ip, uuid>> : ip \in IPs, uuid \in UUIDs}

\* message bodies of /send-message: 1 to 1, 1 to 2, 2 to 1
Messages ==
    {Message(MessageSender(s[1], s[2]), MessageSender(r[1], r[2]), 1, 0) :
        s \in Identities, r \in Identities} \ {Message(MessageSender(1, 2), MessageSender(1, 2), 1, 0)}

GenesisMessage(t) ==
    Message(MessageSender(ZeroIP, ZeroUUID), MessageSender(ZeroIP, ZeroUUID),
            GenesisContent, t)

Network(t) == [nodes |-> <<>>, version |-> 1, lastUpdated |-> t]
StatusOk == [isValid |-> TRUE, error |-> NoneValue]

\* a block as a peer that computes digests would make it
Sealed(index, previousHash, timestamp, message) ==
    LET b == Block(index, previousHash, timestamp, message, 0, StrEmpty)
    IN  [b EXCEPT !.hash = calculate_hash(b)]

PeerGenesis(t) == Sealed(1, StrZero, t, GenesisMessage(t))
PeerNext(prev, t) ==
    Sealed(prev.index + 1, calculate_hash(prev), t, CHOOSE m \in Messages : TRUE)

\* an entry linked to prev by its digest, its index not the next one
PeerSkipped(prev, t) ==
    Sealed(prev.index + 2, calculate_hash(prev), t, CHOOSE m \in Messages : TRUE)

\* bodies of /share-latest-chain that peers send of their own: two ledgers of
\* one entry, one of two entries, an empty one, one with a broken link, and one
\* whose entries are linked by digest while their indexes are 1 and 3
PeerProposals ==
    {ChainProposal(<<PeerGenesis(t)>>, Network(0), StatusOk) : t \in Times}
    \cup {ChainProposal(<<PeerGenesis(0), PeerNext(PeerGenesis(0), 1)>>, Network(0), StatusOk)}
    \cup {ChainProposal(<<>>, Network(0), StatusOk)}
    \cup {ChainProposal(<<PeerGenesis(0), PeerNext(PeerGenesis(1), 1)>>, Network(0), StatusOk)}
    \cup {ChainProposal(<<PeerGenesis(0), PeerSkipped(PeerGenesis(0), 1)>>, Network(0), StatusOk)}

\* ... and what a peer got from /get-latest-chain, shared back
Proposals == PeerProposals \cup {chains[i] : i \in 1..Len(chains)}

\* datetime.now(timezone.utc): the clock does not run backwards
Clock(t) == {u \in Times : t <= u}

---------------------------------------------------------------------------
(* Responses *)

Ok(op, arg, body) == [op |-> op, arg |-> arg, code |-> 200, body |-> body]
HTTPException(op, arg, status_code, detail) ==
    [op |-> op, arg |-> arg, code |-> status_code, body |-> detail]

---------------------------------------------------------------------------
(* POST /share-latest-chain *)

\* the proposal appended before it is validated
share_store_AppendFirst(cs, proposal) == Append(cs, proposal)

\* a proposal equal to a stored ledger is not stored again
share_store_Dedup(cs, proposal) ==
    IF ~is_chain_valid(proposal.blocks) THEN cs
    ELSE IF \E i \in 1..Len(cs) : cs[i] = proposal THEN cs
    ELSE Append(cs, proposal)

\* `chains` after the handler, lines 43-47
share_store(cs, proposal) ==
    IF ~is_chain_valid(proposal.blocks) THEN cs
    ELSE Append(cs, proposal)

share_latest_chain(proposal) ==
    /\ chains' = share_store(chains, proposal)
    /\ IF ~is_chain_valid(proposal.blocks)
       THEN /\ resp' = HTTPException("share", proposal, 400, "Invalid chain")
            /\ UNCHANGED chainFile
       ELSE /\ chainFile' = save_chain(chains')
            /\ resp' = Ok("share", proposal, majority_of(chains'))
    /\ UNCHANGED <<participants, participantsFile, now, probe, reqs, loop>>

(* GET /get-latest-chain, GET /index *)

\* an empty store answered with an error
get_latest_chain_404 ==
    /\ resp' = IF chains = <<>> THEN HTTPException("get", NoneValue, 404, "No chain")
                ELSE Ok("get", NoneValue, get_majority_chain)
    /\ UNCHANGED <<chains, participants, chainFile, participantsFile, now, probe, reqs, loop>>

get_latest_chain ==
    /\ resp' = Ok("get", NoneValue,
                  IF chains = <<>> THEN EmptyDict ELSE get_majority_chain)
    /\ UNCHANGED <<chains, participants, chainFile, participantsFile, now, probe, reqs, loop>>

index ==
    /\ resp' = Ok("index", NoneValue,
                  [participants |-> participants,
                   latest_chain |-> IF chains # <<>> THEN get_majority_chain
                                    ELSE EmptyDict])
    /\ UNCHANGED <<chains, participants, chainFile, participantsFile, now, probe, reqs, loop>>

---------------------------------------------------------------------------
(* POST /create-genesis *)

genesis_block(t1, t2) == Block(1, StrZero, t1, GenesisMessage(t2), 0, StrZero)

initial_chain(t1, t2, t3) ==
    [blocks |-> <<genesis_block(t1, t2)>>, network |-> Network(t3), status |-> StatusOk]

\* refused only when the store and the participant set both hold something
create_genesis_allowed_Both == ~(chains # <<>> /\ participants # {})

create_genesis_allowed == ~(chains # <<>> \/ participants # {})

create_genesis ==
    IF ~create_genesis_allowed
    THEN /\ resp' = HTTPException("genesis", NoneValue, 400,
                                  "Blockchain or participants already initialized")
         /\ UNCHANGED <<chains, participants, chainFile, participantsFile, now, probe, reqs, loop>>
    ELSE \E t1 \in Clock(now) : \E t2 \in Clock(t1) : \E t3 \in Clock(t2) :
            /\ now' = t3
            /\ chains' = Append(chains, initial_chain(t1, t2, t3))
            /\ chainFile' = save_chain(chains')
            /\ participantsFile' = save_participants(participants)
            /\ resp' = Ok("genesis", NoneValue, "Genesis block created and blockchain initialized")
            /\ UNCHANGED <<participants, probe, reqs, loop>>

---------------------------------------------------------------------------
(* POST /send-message *)

\* `and` for `or`: one registered party is enough
registered_EitherOne(message) ==
    LET sender == <<message.sender.ipAddress, message.sender.uuid>>
        receiver == <<message.recipient.ipAddress, message.recipient.uuid>>
    IN  ~(sender \notin participants /\ receiver \notin participants)

\* lines 121-124
registered(message) ==
    LET sender == <<message.sender.ipAddress, message.sender.uuid>>
        receiver == <<message.recipient.ipAddress, message.recipient.uuid>>
    IN  ~(sender \notin participants \/ receiver \notin participants)

\* the previous block's stored hash used as previousHash, not its digest
new_block_StoredHash(cs, message, t) ==
    LET previous_block == IF cs # <<>>
                          THEN cs[Len(cs)].blocks[Len(cs[Len(cs)].blocks)]
                          ELSE NoneValue
        has_previous == cs # <<>>
        new_index == IF has_previous THEN previous_block.index + 1 ELSE 1
        b == Block(new_index,
                   IF has_previous THEN previous_block.hash ELSE StrZero,
                   t, message, 0, StrEmpty)
    IN  [b EXCEPT !.hash = calculate_hash(b)]

\* the new entry given the index of the tail, not the next one
new_block_TailIndex(cs, message, t) ==
    LET previous_block == IF cs # <<>>
                          THEN cs[Len(cs)].blocks[Len(cs[Len(cs)].blocks)]
                          ELSE NoneValue
        has_previous == cs # <<>>
        new_index == IF has_previous THEN previous_block.index ELSE 1
        b == Block(new_index,
                   IF has_previous THEN calculate_hash(previous_block) ELSE StrZero,
                   t, message, 0, StrEmpty)
    IN  [b EXCEPT !.hash = calculate_hash(b)]

\* lines 128-141
new_block(cs, message, t) ==
    LET previous_block == IF cs # <<>>
                          THEN cs[Len(cs)].blocks[Len(cs[Len(cs)].blocks)]
                          ELSE NoneValue
        has_previous == cs # <<>>
        new_index == IF has_previous THEN previous_block.index + 1 ELSE 1
        b == Block(new_index,
                   IF has_previous THEN calculate_hash(previous_block) ELSE StrZero,
                   t, message, 0, StrEmpty)
    IN  [b EXCEPT !.hash = calculate_hash(b)]

\* the entry appended to the ledger stored first
add_block_First(cs, block, t) ==
    IF cs # <<>>
    THEN [cs EXCEPT ![1].blocks = Append(@, block)]
    ELSE Append(cs, [blocks |-> <<block>>, network |-> Network(t), status |-> StatusOk])

\* the extended ledger's network.lastUpdated set to the time of the append
add_block_Touches(cs, block, t) ==
    IF cs # <<>>
    THEN [cs EXCEPT ![Len(cs)].blocks = Append(@, block),
                    ![Len(cs)].network.lastUpdated = t]
    ELSE Append(cs, [blocks |-> <<block>>, network |-> Network(t), status |-> StatusOk])

\* lines 144-151
add_block(cs, block, t) ==
    IF cs # <<>>
    THEN [cs EXCEPT ![Len(cs)].blocks = Append(@, block)]
    ELSE Append(cs, [blocks |-> <<block>>, network |-> Network(t), status |-> StatusOk])

send_message(message) ==
    IF ~registered(message)
    THEN /\ resp' = HTTPException("send", message, 400,
                                  "Sender or recipient is not a registered participant")
         /\ UNCHANGED <<chains, participants, chainFile, participantsFile, now, probe, reqs, loop>>
    ELSE \E t1 \in Clock(now) : \E t2 \in (IF chains # <<>> THEN {t1} ELSE Clock(t1)) :
            /\ now' = t2
            /\ chains' = add_block(chains, new_block(chains, message, t1), t2)
            /\ chainFile' = save_chain(chains')
            /\ resp' = Ok("send", message, "Message added to blockchain")
            /\ UNCHANGED <<participants, participantsFile, probe, reqs, loop>>

---------------------------------------------------------------------------
(* POST /register-participant *)

\* an identity taken as registered when its ipAddress is
register_participant_ByIP(participant) ==
    LET participant_tuple == <<participant.ipAddress, participant.uuid>>
    IN  IF \E q \in participants : q[1] = participant.ipAddress
        THEN /\ resp' = Ok("register", participant,
                           [status |-> "error", message |-> "Participant already registered"])
             /\ UNCHANGED <<chains, participants, chainFile, participantsFile, now, probe, reqs, loop>>
        ELSE /\ participants' = participants \cup {participant_tuple}
             /\ participantsFile' = save_participants(participants')
             /\ resp' = Ok("register", participant,
                           [status |-> "success",
                            message |-> "Participant registered successfully"])
             /\ UNCHANGED <<chains, chainFile, now, probe, reqs, loop>>

register_participant(participant) ==
    LET participant_tuple == <<participant.ipAddress, participant.uuid>>
    IN  IF participant_tuple \in participants
        THEN \* the HTTPException is caught by the handler's own except clause
             /\ resp' = Ok("register", participant,
                           [status |-> "error", message |-> "Participant already registered"])
             /\ UNCHANGED <<chains, participants, chainFile, participantsFile, now, probe, reqs, loop>>
        ELSE /\ participants' = participants \cup {participant_tuple}
             /\ participantsFile' = save_participants(participants')
             /\ resp' = Ok("register", participant,
                           [status |-> "success",
                            message |-> "Participant registered successfully"])
             /\ UNCHANGED <<chains, chainFile, now, probe, reqs, loop>>

---------------------------------------------------------------------------
(* Process start: load_data() *)

load_data ==
    /\ chains' = load_chains(chainFile)
    /\ participants' = load_participants(participantsFile)
    /\ resp' = Ok("start", NoneValue, NoneValue)
    /\ UNCHANGED <<chainFile, participantsFile, now, probe, reqs, loop>>

---------------------------------------------------------------------------
(* The service: uvicorn runs every handler on one event loop, and no handler *)
(* awaits, so each request is handled in one step.                           *)

NoProbe == [used |-> FALSE]

Init ==
    /\ chains = <<>>
    /\ participants = {}
    /\ chainFile = NoFile
    /\ participantsFile = NoFile
    /\ now = 0
    /\ resp = Ok("start", NoneValue, NoneValue)
    /\ probe = NoProbe
    /\ reqs = <<>>
    /\ loop = 0

RECURSIVE Entries(_)
Entries(cs) == IF cs = <<>> THEN 0 ELSE Len(Head(cs).blocks) + Entries(Tail(cs))

\* the store stops growing at MaxEntries blocks
Share ==
    \E proposal \in Proposals :
        /\ is_chain_valid(proposal.blocks)
                => Entries(chains) + Len(proposal.blocks) <= MaxEntries
        /\ share_latest_chain(proposal)

Send ==
    \E message \in Messages :
        /\ registered(message) => Entries(chains) < MaxEntries
        /\ send_message(message)

Register == \E p \in Identities : register_participant(Participant(p[1], p[2]))

Next ==
    \/ Share
    \/ get_latest_chain
    \/ index
    \/ create_genesis
    \/ Send
    \/ Register
    \/ load_data

Spec == Init /\ [][Next]_vars

---------------------------------------------------------------------------
(* The service without peers: only the ledgers the service makes itself *)

NextOwn ==
    \/ create_genesis
    \/ Send
    \/ Register
    \/ get_latest_chain

SpecOwn == Init /\ [][NextOwn]_vars

\* C1 (validator soundness): every ledger that create-genesis and send-message
\* produced, with no shared proposal in the store, passes is_chain_valid.
C1_ValidatorSoundness ==
    \A i \in 1..Len(chains) : is_chain_valid(chains[i].blocks)

---------------------------------------------------------------------------
(* is_chain_valid on its own: a ledger is drawn, fields of its entries are   *)
(* overwritten without recomputing any digest, and the ledger is validated.  *)

MaxEdits == 2

ProbeFirsts == {PeerGenesis(t) : t \in Times}
ProbeNexts(prev) == {PeerNext(prev, t) : t \in Times}

\* the ledgers of n entries that is_chain_valid accepts, over these entries
RECURSIVE ProbeLedgers(_)
ProbeLedgers(n) ==
    IF n = 1 THEN {<<b>> : b \in ProbeFirsts}
    ELSE UNION {{Append(l, b) : b \in ProbeNexts(l[Len(l)])} : l \in ProbeLedgers(n - 1)}

ProbeBases == {<<>>} \cup UNION {ProbeLedgers(n) : n \in 1..MaxBlocks}

Fields == {"index", "previousHash", "timestamp", "message", "proof", "hash"}

\* the values a field may be overwritten with
FieldValues(blocks, f) ==
    CASE f = "index" -> {1, 2, 3}
      [] f = "timestamp" -> Times \cup {2}
      [] f = "proof" -> {0, 1}
      [] f = "message" -> {GenesisMessage(0), GenesisMessage(1), CHOOSE m \in Messages : TRUE}
      [] OTHER -> {StrZero, StrEmpty} \cup {calculate_hash(blocks[i]) : i \in 1..Len(blocks)}

InitValidator ==
    /\ chains = <<>>
    /\ participants = {}
    /\ chainFile = NoFile
    /\ participantsFile = NoFile
    /\ now = 0
    /\ resp = Ok("start", NoneValue, NoneValue)
    /\ probe \in {[used |-> TRUE, base |-> l, cand |-> l, edits |-> 0,
                   checked |-> FALSE, verdict |-> FALSE] : l \in ProbeBases}
    /\ reqs = <<>>
    /\ loop = 0

Tamper ==
    /\ probe.edits < MaxEdits
    /\ \E pos \in 1..Len(probe.cand), f \in Fields :
         \E v \in FieldValues(probe.cand, f) \ {probe.cand[pos][f]} :
            probe' = [probe EXCEPT !.cand[pos][f] = v, !.edits = @ + 1,
                                   !.checked = FALSE]
    /\ UNCHANGED <<chains, participants, chainFile, participantsFile, now, resp, reqs, loop>>

Validate ==
    /\ probe' = [probe EXCEPT !.checked = TRUE, !.verdict = is_chain_valid(probe.cand)]
    /\ UNCHANGED <<chains, participants, chainFile, participantsFile, now, resp, reqs, loop>>

NextValidator == Tamper \/ Validate

SpecValidator == InitValidator /\ [][NextValidator]_vars

\* C2 (tamper detection): a ledger that is_chain_valid accepts and in which
\* exactly one field of exactly one entry was then overwritten with another
\* value, no digest being recomputed, is rejected.
C2_TamperDetection ==
    (/\ probe.checked
     /\ probe.edits = 1
     /\ is_chain_valid(probe.base))
        => probe.verdict = FALSE

\* a two-entry accepted ledger whose last entry got another message, rejected
C2_Witness ==
    /\ probe.checked
    /\ probe.edits = 1
    /\ is_chain_valid(probe.base)
    /\ Len(probe.base) = 2
    /\ probe.cand[2].message # probe.base[2].message
    /\ probe.verdict = FALSE

\* C3 (genesis rule): the empty ledger, and every ledger whose first entry has
\* an index other than 1, a previousHash other than "0" or a stored hash other
\* than its recomputed digest, is rejected, whatever the other entries are.
C3_GenesisRule ==
    (/\ probe.checked
     /\ \/ Len(probe.cand) = 0
        \/ probe.cand[1].index # 1
        \/ probe.cand[1].previousHash # StrZero
        \/ probe.cand[1].hash # calculate_hash(probe.cand[1]))
        => probe.verdict = FALSE

\* a two-entry ledger whose first entry has index 2 and a stored hash equal to
\* its digest, the second entry as it was in the accepted ledger, rejected
C3_Witness ==
    /\ probe.checked
    /\ Len(probe.cand) = 2
    /\ is_chain_valid(probe.base)
    /\ probe.cand[1].index = 2
    /\ probe.cand[1].previousHash = StrZero
    /\ probe.cand[1].hash = calculate_hash(probe.cand[1])
    /\ probe.cand[2] = probe.base[2]
    /\ probe.verdict = FALSE

---------------------------------------------------------------------------
(* get_majority_chain on stores of accepted proposals *)

MaxStore == 3

\* accepted proposals: A, A with other metadata, a longer ledger, another genesis
Votes ==
    {ChainProposal(<<PeerGenesis(0)>>, Network(t), StatusOk) : t \in Times}
    \cup {ChainProposal(<<PeerGenesis(0), PeerNext(PeerGenesis(0), 1)>>, Network(0), StatusOk)}
    \cup {ChainProposal(<<PeerGenesis(1)>>, Network(0), StatusOk)}

ShareVote ==
    \E proposal \in Votes :
        /\ Len(chains) < MaxStore
        /\ share_latest_chain(proposal)

NextResolver ==
    \/ ShareVote
    \/ get_latest_chain
    \/ index

SpecResolver == Init /\ [][NextResolver]_vars

\* the ledger the last response carried as latest_chain, if it carried one
HasLatest ==
    \/ resp.op \in {"get", "index"}
    \/ resp.op = "share" /\ resp.code = 200
Latest == IF resp.op = "index" THEN resp.body.latest_chain ELSE resp.body

Occurrences(c) == Cardinality({i \in 1..Len(chains) : chains[i] = c})

\* C4 (resolver plurality): on a non-empty store the ledger returned is a stored
\* proposal and no stored ledger occurs more often than it does, by equality of
\* whole ledgers; the length of a ledger plays no part.
C4_Plurality ==
    (HasLatest /\ chains # <<>>) =>
        /\ \E i \in 1..Len(chains) : chains[i] = Latest
        /\ \A j \in 1..Len(chains) : Occurrences(chains[j]) <= Occurrences(Latest)

\* the store [A, A, B] with B longer than A, and A returned
C4_Witness ==
    /\ resp.op = "get"
    /\ Len(chains) = 3
    /\ chains[1] = chains[2]
    /\ Len(chains[3].blocks) > Len(chains[1].blocks)
    /\ resp.body = chains[1]

\* the first position of the store that holds a ledger of maximal count
FirstBest ==
    LET best == {i \in 1..Len(chains) :
                    \A j \in 1..Len(chains) : Occurrences(chains[j]) <= Occurrences(chains[i])}
    IN  CHOOSE i \in best : \A j \in best : i <= j

C6_FirstOfTied == (HasLatest /\ chains # <<>>) => Latest = chains[FirstBest]

C6_SameAgain ==
    (resp.op \in {"get", "index"} /\ resp'.op \in {"get", "index"})
        => (IF resp'.op = "index" THEN resp'.body.latest_chain ELSE resp'.body) = Latest

\* C6 (resolver tie policy): among the ledgers of maximal count the one that
\* occurs first in the store is returned, and a call that follows another on
\* the unchanged store returns the same ledger.
C6_TiePolicy == []C6_FirstOfTied /\ [][C6_SameAgain]_vars

\* three different ledgers stored once each: the one stored first is returned
C6_Witness ==
    /\ resp.op = "index"
    /\ Len(chains) = 3
    /\ chains[1] # chains[2]
    /\ chains[3] # chains[1] /\ chains[3] # chains[2]
    /\ resp.body.latest_chain = chains[1]

---------------------------------------------------------------------------
(* The handlers, step by step: properties of Spec *)

Stored == <<chains, participants, chainFile, participantsFile>>

C5_Step ==
    (resp'.op \in {"get", "index"} /\ chains = <<>>) =>
        /\ resp'.code = 200
        /\ (IF resp'.op = "index" THEN resp'.body.latest_chain ELSE resp'.body) = EmptyDict
        /\ get_majority_chain = EmptyDict
        /\ Stored' = Stored

\* C5 (empty resolver input): on an empty store get-latest-chain and index
\* answer 200 with latest_chain {}, get_majority_chain is {}, and the store, the
\* participants and the files stay as they are.
C5_EmptyResolverInput == [][C5_Step]_vars

\* index answered on an empty store with a participant registered
C5_Witness ==
    /\ resp.op = "index"
    /\ chains = <<>>
    /\ participants # {}
    /\ resp.body.latest_chain = EmptyDict
    /\ resp.body.participants = participants

LastOf(blocks) == blocks[Len(blocks)]

C7_Step ==
    (resp'.op = "send" /\ resp'.code = 200) =>
        IF chains # <<>>
        THEN LET n == Len(chains)
                 old == chains[n].blocks
                 new == chains'[n].blocks
                 T == LastOf(old)
                 E == LastOf(new)
             IN  /\ Len(chains') = n
                 /\ new = Append(old, E)
                 /\ E.index = T.index + 1
                 /\ E.previousHash = calculate_hash(T)
                 /\ E.proof = 0
                 /\ E.hash = calculate_hash(E)
                 /\ E.message = resp'.arg
                 /\ is_chain_valid(old) => is_chain_valid(new)
        ELSE LET E == chains'[1].blocks[1]
             IN  /\ Len(chains') = 1
                 /\ Len(chains'[1].blocks) = 1
                 /\ E.index = 1
                 /\ E.previousHash = StrZero
                 /\ E.proof = 0
                 /\ E.hash = calculate_hash(E)
                 /\ E.message = resp'.arg

\* C7 (append correctness): a successful send-message on a non-empty store adds
\* to the held ledger, whose tail is T, one entry E with E.index = T.index + 1,
\* E.previousHash = digest of T, E.proof = 0 and E.hash = digest of E, and a held
\* ledger that passed is_chain_valid passes it when extended; on an empty store
\* the entry has index 1 and previousHash "0".
C7_AppendCorrectness == [][C7_Step]_vars

\* a message appended to an accepted proposal, the last ledger of two stored:
\* the extended ledger passes is_chain_valid
C7_Witness ==
    /\ resp.op = "send"
    /\ resp.code = 200
    /\ Len(chains) = 2
    /\ Len(chains[2].blocks) = 2
    /\ chains[2].blocks[1] \in {PeerGenesis(t) : t \in Times}
    /\ chains[2].blocks[2].message = resp.arg
    /\ is_chain_valid(chains[2].blocks)

C8_Step ==
    resp'.op = "share" =>
        IF ~is_chain_valid(resp'.arg.blocks)
        THEN /\ resp'.code = 400
             /\ resp'.body = "Invalid chain"
             /\ Stored' = Stored
        ELSE /\ resp'.code = 200
             /\ chains' = Append(chains, resp'.arg)

\* C8 (invalid proposal): share-latest-chain of a ledger that is_chain_valid
\* rejects answers 400 "Invalid chain" and leaves the store, the participants
\* and the files as they are; a ledger that passes is appended to the store as
\* a whole.
C8_InvalidProposal == [][C8_Step]_vars

\* a stored ledger of two entries shared back and refused
C8_Witness ==
    /\ resp.op = "share"
    /\ resp.code = 400
    /\ chains # <<>>
    /\ resp.arg = chains[1]
    /\ Len(resp.arg.blocks) = 2

C9_Step ==
    resp'.op = "send" =>
        LET m == resp'.arg
            both == /\ <<m.sender.ipAddress, m.sender.uuid>> \in participants
                    /\ <<m.recipient.ipAddress, m.recipient.uuid>> \in participants
        IN  /\ resp'.code = 200 => both
            /\ chains' # chains => both
            /\ ~both => /\ resp'.code = 400
                        /\ Stored' = Stored

\* C9 (registry gate): send-message succeeds only when sender and recipient
\* are both in the participant set; otherwise it answers 400 and the store, the
\* participants and the files stay as they are.
C9_RegistryGate == [][C9_Step]_vars

\* a message from a registered sender to an unregistered recipient, refused
C9_Witness ==
    /\ resp.op = "send"
    /\ resp.code = 400
    /\ chains # <<>>
    /\ <<resp.arg.sender.ipAddress, resp.arg.sender.uuid>> \in participants
    /\ <<resp.arg.recipient.ipAddress, resp.arg.recipient.uuid>> \notin participants

---------------------------------------------------------------------------
(* Requests that arrive concurrently.  uvicorn.run(app) serves every request *)
(* on one event loop in one process; a handler declared `async def` runs as  *)
(* a coroutine on that loop and gives the loop up only where it awaits.      *)
(* Here the two mutating handlers run statement by statement.                *)

MaxReqs == 3

\* the places in send_message and share_latest_chain at which the coroutine
\* awaits, that is, the values of pc at which another request may run: the code
\* calls is_chain_valid, get_majority_chain and save_chain directly, none awaited
AwaitPoints_BeforeAppend == {"built"}
AwaitPoints == {}

Request(op, arg) ==
    [op |-> op, arg |-> arg, pc |-> "arrived", code |-> 0,
     block |-> NoneValue, stamp |-> 0, waiting |-> 0]

ConcRequests ==
    {Request("send", m) : m \in Messages}
    \cup {Request("share", ChainProposal(<<PeerGenesis(0)>>, Network(0), StatusOk)),
          Request("share", ChainProposal(<<>>, Network(0), StatusOk))}

\* the service with participant (1, 1) registered and nothing stored
InitConc ==
    /\ chains = <<>>
    /\ participants = {<<1, 1>>}
    /\ chainFile = NoFile
    /\ participantsFile = save_participants(participants)
    /\ now = 0
    /\ resp = Ok("register", Participant(1, 1),
                 [status |-> "success", message |-> "Participant registered successfully"])
    /\ probe = NoProbe
    /\ reqs = <<>>
    /\ loop = 0

Arrive ==
    /\ Len(reqs) < MaxReqs
    /\ \E r \in ConcRequests : reqs' = Append(reqs, r)
    /\ UNCHANGED <<chains, participants, chainFile, participantsFile, now, resp, probe, loop>>

\* request r may take a step: its coroutine has the loop, or the loop is free
Runs(r, op, pc) ==
    /\ reqs[r].op = op
    /\ reqs[r].pc = pc
    /\ loop = r \/ loop = 0

\* the loop after r reached pc
Loop(r, pc) == IF pc = "done" \/ pc \in AwaitPoints THEN 0 ELSE r

Waiting(r) == Cardinality({q \in 1..Len(reqs) : q # r /\ reqs[q].pc = "arrived"})

\* send_message, lines 117-125
SendCheck(r) ==
    /\ Runs(r, "send", "arrived")
    /\ LET pc == IF registered(reqs[r].arg) THEN "checked" ELSE "done"
       IN  /\ reqs' = [reqs EXCEPT ![r].pc = pc, ![r].waiting = Waiting(r),
                                   ![r].code = IF pc = "done" THEN 400 ELSE 0]
           /\ loop' = Loop(r, pc)
    /\ UNCHANGED <<chains, participants, chainFile, participantsFile, now, resp, probe>>

\* send_message, lines 128-141
SendBuild(r) ==
    /\ Runs(r, "send", "checked")
    /\ \E t \in Clock(now) :
        /\ now' = t
        /\ reqs' = [reqs EXCEPT ![r].pc = "built",
                                ![r].block = new_block(chains, reqs[r].arg, t)]
    /\ loop' = Loop(r, "built")
    /\ UNCHANGED <<chains, participants, chainFile, participantsFile, resp, probe>>

\* send_message, lines 144-151
SendAppend(r) ==
    /\ Runs(r, "send", "built")
    /\ \E t \in (IF chains # <<>> THEN {now} ELSE Clock(now)) :
        /\ now' = t
        /\ chains' = add_block(chains, reqs[r].block, t)
        /\ reqs' = [reqs EXCEPT ![r].pc = "appended", ![r].stamp = t]
    /\ loop' = Loop(r, "appended")
    /\ UNCHANGED <<participants, chainFile, participantsFile, resp, probe>>

\* send_message, lines 154-156; share_latest_chain, lines 50-55
Save(r) ==
    /\ \/ Runs(r, "send", "appended")
       \/ Runs(r, "share", "appended")
    /\ chainFile' = save_chain(chains)
    /\ reqs' = [reqs EXCEPT ![r].pc = "done", ![r].code = 200]
    /\ loop' = Loop(r, "done")
    /\ UNCHANGED <<chains, participants, participantsFile, now, resp, probe>>

\* share_latest_chain, lines 43-44
ShareValidate(r) ==
    /\ Runs(r, "share", "arrived")
    /\ LET pc == IF ~is_chain_valid(reqs[r].arg.blocks) THEN "done" ELSE "validated"
       IN  /\ reqs' = [reqs EXCEPT ![r].pc = pc, ![r].waiting = Waiting(r),
                                   ![r].code = IF pc = "done" THEN 400 ELSE 0]
           /\ loop' = Loop(r, pc)
    /\ UNCHANGED <<chains, participants, chainFile, participantsFile, now, resp, probe>>

\* share_latest_chain, line 47
ShareAppend(r) ==
    /\ Runs(r, "share", "validated")
    /\ chains' = Append(chains, reqs[r].arg)
    /\ reqs' = [reqs EXCEPT ![r].pc = "appended"]
    /\ loop' = Loop(r, "appended")
    /\ UNCHANGED <<participants, chainFile, participantsFile, now, resp, probe>>

NextConc ==
    \/ Arrive
    \/ \E r \in 1..Len(reqs) : SendCheck(r)
    \/ \E r \in 1..Len(reqs) : SendBuild(r)
    \/ \E r \in 1..Len(reqs) : SendAppend(r)
    \/ \E r \in 1..Len(reqs) : ShareValidate(r)
    \/ \E r \in 1..Len(reqs) : ShareAppend(r)
    \/ \E r \in 1..Len(reqs) : Save(r)

SpecConc == InitConc /\ [][NextConc]_vars


InFlight(r) == reqs[r].pc \notin {"arrived", "done"}
Applied(r) == reqs[r].pc = "appended" \/ (reqs[r].pc = "done" /\ reqs[r].code = 200)
Finished == {r \in 1..Len(reqs) : reqs[r].pc = "done"}

RECURSIVE AppliedEntries(_)
AppliedEntries(r) ==
    IF r = 0 THEN 0
    ELSE AppliedEntries(r - 1)
         + (IF ~Applied(r) THEN 0
            ELSE IF reqs[r].op = "send" THEN 1 ELSE Len(reqs[r].arg.blocks))

\* the store after the finished requests are handled one after the other, in
\* the order given, each with the times it read
RECURSIVE Serial(_, _)
Serial(cs, order) ==
    IF order = <<>> THEN cs
    ELSE LET q == reqs[Head(order)]
             next == IF q.code # 200 THEN cs
                     ELSE IF q.op = "share" THEN share_store(cs, q.arg)
                     ELSE add_block(cs, new_block(cs, q.arg, q.block.timestamp), q.stamp)
         IN  Serial(next, Tail(order))

Orders(S) ==
    {f \in [1..Cardinality(S) -> S] : \A i, j \in 1..Cardinality(S) : f[i] = f[j] => i = j}

\* C10 (mutual exclusion of mutations): whatever the order in which requests
\* arrive and are scheduled, at most one send-message or share-latest-chain is
\* between its first and its last statement; no appended entry is lost; within
\* a ledger no two entries have the same index or the same previousHash, each
\* appended entry following its predecessor; and when no request is under way
\* the store is what handling the finished requests one by one, in some order,
\* gives.
C10_MutualExclusion ==
    /\ Cardinality({r \in 1..Len(reqs) : InFlight(r)}) <= 1
    /\ Entries(chains) = AppliedEntries(Len(reqs))
    /\ \A i \in 1..Len(chains) :
        LET blocks == chains[i].blocks
        IN  /\ \A k \in 2..Len(blocks) :
                  /\ blocks[k].index = blocks[k - 1].index + 1
                  /\ blocks[k].previousHash = calculate_hash(blocks[k - 1])
            /\ \A k, l \in 1..Len(blocks) :
                  k # l => /\ blocks[k].index # blocks[l].index
                           /\ blocks[k].previousHash # blocks[l].previousHash
    /\ (\A r \in 1..Len(reqs) : ~InFlight(r))
          => \E order \in Orders(Finished) : chains = Serial(<<>>, order)

\* three requests handled, the first begun while the two others waited: a
\* proposal accepted and two messages appended
C10_Witness ==
    /\ Len(reqs) = 3
    /\ \A r \in 1..3 : reqs[r].pc = "done" /\ reqs[r].code = 200
    /\ \E r \in 1..3 : reqs[r].waiting = 2
    /\ Cardinality({r \in 1..3 : reqs[r].op = "send"}) = 2
    /\ Entries(chains) = 3

---------------------------------------------------------------------------
(* The store of proposals over a run *)

C11_Step ==
    /\ Len(chains') >= Len(chains)
    /\ (resp'.op = "share" /\ resp'.code = 200) => Len(chains') = Len(chains) + 1

\* C11 (accumulating store): every successful share-latest-chain increases the
\* number of stored proposals by exactly one, also when an equal ledger is in
\* the store already, and no operation decreases the number of stored proposals.
C11_AccumulatingStore == [][C11_Step]_vars

\* a ledger shared when the store held an equal one: both are stored
C11_Witness ==
    /\ resp.op = "share"
    /\ resp.code = 200
    /\ Len(chains) = 2
    /\ chains[1] = chains[2]
    /\ chains[2] = resp.arg

---------------------------------------------------------------------------
(* Memory and files *)

\* what load_data would read from the files is what the process holds
C12_Persisted ==
    /\ load_chains(chainFile) = chains
    /\ load_participants(participantsFile) = participants

\* the last request was an accepted mutation
C12_Mutation ==
    \/ resp.op \in {"genesis", "send", "share"} /\ resp.code = 200
    \/ resp.op = "register" /\ resp.body.status = "success"

C12_Restart ==
    resp'.op = "start" =>
        /\ chains' = chains
        /\ participants' = participants
        /\ chainFile' = chainFile
        /\ participantsFile' = participantsFile

\* C12 (persistence follows every accepted mutation): after each successful
\* create-genesis, send-message, share-latest-chain and register-participant the
\* chain file and the participant file hold the store and the participant set
\* of the process, and load_data at a restart restores the same proposals, in
\* order and content, and the same participants.
C12_PersistenceFollows ==
    [](C12_Mutation => C12_Persisted) /\ [][C12_Restart]_vars

\* a restart with two ledgers stored, one of them extended, and two participants
C12_Witness ==
    /\ resp.op = "start"
    /\ Len(chains) = 2
    /\ Len(chains[2].blocks) = 2
    /\ Cardinality(participants) = 2
    /\ chainFile.exists /\ Len(chainFile.chains) = 2
    /\ participantsFile.exists

---------------------------------------------------------------------------
(* save_chain and save_participants, write by write, and a process that may *)
(* die: open(file, 'w') empties the file, json.dump writes the document in   *)
(* pieces, and leaving the with block closes the file.                       *)

\* a file that holds the beginning of a document: json.load raises on it
Partial(content) == content @@ [exists |-> TRUE, partial |-> TRUE]
Complete(file) == "partial" \notin DOMAIN file

\* the save in progress: the file it writes, what the file held before the
\* open, what it holds after the close, and the pieces written so far
Saving(op, arg, file, before, target) ==
    [op |-> op, arg |-> arg, pc |-> "dump", file |-> file,
     before |-> before, target |-> target, written |-> 0]

Up == resp.op # "crash"

\* share_latest_chain of an accepted proposal, up to the open in save_chain
ShareOpen ==
    \E proposal \in Votes :
        /\ Up /\ reqs = <<>>
        /\ Len(chains) < MaxStore
        /\ chains' = share_store(chains, proposal)
        /\ chainFile' = Partial([chains |-> <<>>])
        /\ reqs' = <<Saving("share", proposal, "chains", chainFile, save_chain(chains'))>>
        /\ UNCHANGED <<participants, participantsFile, now, resp, probe, loop>>

\* register_participant of a new identity, up to the open in save_participants
RegisterOpen ==
    \E p \in Identities :
        /\ Up /\ reqs = <<>>
        /\ p \notin participants
        /\ participants' = participants \cup {p}
        /\ participantsFile' = Partial([participants |-> {}])
        /\ reqs' = <<Saving("register", Participant(p[1], p[2]), "participants",
                            participantsFile, save_participants(participants'))>>
        /\ UNCHANGED <<chains, chainFile, now, resp, probe, loop>>

\* json.dump hands the next piece of the document to the file
Dump ==
    /\ Up /\ reqs # <<>>
    /\ LET s == reqs[1]
       IN  IF s.file = "chains"
           THEN /\ s.written < Len(s.target.chains)
                /\ chainFile' = Partial([chains |-> SubSeq(s.target.chains, 1, s.written + 1)])
                /\ UNCHANGED participantsFile
           ELSE /\ s.written < Cardinality(s.target.participants)
                /\ \E p \in s.target.participants \ participantsFile.participants :
                      participantsFile' =
                          Partial([participants |-> participantsFile.participants \cup {p}])
                /\ UNCHANGED chainFile
    /\ reqs' = <<[reqs[1] EXCEPT !.written = @ + 1]>>
    /\ UNCHANGED <<chains, participants, now, resp, probe, loop>>

\* the with block is left: the document is on disk, the handler answers
Close ==
    /\ Up /\ reqs # <<>>
    /\ LET s == reqs[1]
       IN  IF s.file = "chains"
           THEN /\ s.written = Len(s.target.chains)
                /\ chainFile' = s.target
                /\ resp' = Ok(s.op, s.arg, majority_of(chains))
                /\ UNCHANGED participantsFile
           ELSE /\ s.written = Cardinality(s.target.participants)
                /\ participantsFile' = s.target
                /\ resp' = Ok(s.op, s.arg,
                              [status |-> "success",
                               message |-> "Participant registered successfully"])
                /\ UNCHANGED chainFile
    /\ reqs' = <<>>
    /\ UNCHANGED <<chains, participants, now, probe, loop>>

\* the process dies: memory is lost, the files stay as they are
Crash ==
    /\ Up
    /\ chains' = <<>>
    /\ participants' = {}
    /\ reqs' = IF reqs = <<>> THEN reqs ELSE <<[reqs[1] EXCEPT !.pc = "crashed"]>>
    /\ resp' = [op |-> "crash", arg |-> NoneValue, code |-> 0, body |-> NoneValue]
    /\ UNCHANGED <<chainFile, participantsFile, now, probe, loop>>

\* the process is started again: load_data reads the files, and json.load
\* raises on a file that does not hold a whole document
Restart ==
    /\ ~Up
    /\ Complete(chainFile) /\ Complete(participantsFile)
    /\ chains' = load_chains(chainFile)
    /\ participants' = load_participants(participantsFile)
    /\ reqs' = <<>>
    /\ resp' = Ok("start", NoneValue, NoneValue)
    /\ UNCHANGED <<chainFile, participantsFile, now, probe, loop>>

NextCrash ==
    \/ ShareOpen
    \/ RegisterOpen
    \/ Dump
    \/ Close
    \/ Crash
    \/ Restart

SpecCrash == Init /\ [][NextCrash]_vars

\* C13 (all-or-nothing persistence): when the process dies during save_chain or
\* save_participants, the file being written holds either what it held before
\* the save or what the completed save leaves, never an empty or a partly
\* written document.
C13_AllOrNothing ==
    (~Up /\ reqs # <<>>) =>
        LET s == reqs[1]
            file == IF s.file = "chains" THEN chainFile ELSE participantsFile
        IN  file = s.before \/ file = s.target

---------------------------------------------------------------------------
(* What send-message leaves alone *)

IsPrefix(s, t) == Len(s) <= Len(t) /\ SubSeq(t, 1, Len(s)) = s

C14_Send ==
    (resp'.op = "send" /\ resp'.code = 200 /\ chains # <<>>) =>
        LET n == Len(chains)
        IN  /\ Len(chains') = n
            /\ \A i \in 1..(n - 1) : chains'[i] = chains[i]
            /\ Len(chains'[n].blocks) = Len(chains[n].blocks) + 1
            /\ IsPrefix(chains[n].blocks, chains'[n].blocks)
            /\ chains'[n].network = chains[n].network
            /\ chains'[n].status = chains[n].status
            /\ participants' = participants

C14_Prefix ==
    \A i \in 1..Len(chains) :
        /\ i <= Len(chains')
        /\ IsPrefix(chains[i].blocks, chains'[i].blocks)

\* C14 (tail-only extension): a successful send-message on a non-empty store
\* lengthens exactly one stored ledger by exactly one entry at its tail; the
\* earlier entries of that ledger, its network and status, every other stored
\* ledger, the number of stored proposals and the participants are unchanged,
\* and over every step each stored ledger keeps its content as a prefix.
C14_TailOnly == [][C14_Send /\ C14_Prefix]_vars

\* the second of two stored ledgers extended at a later time than the
\* lastUpdated it carries, the first one as it was
C14_Witness ==
    /\ resp.op = "send"
    /\ resp.code = 200
    /\ Len(chains) = 2
    /\ Len(chains[1].blocks) = 1
    /\ Len(chains[2].blocks) = 2
    /\ chains[2].blocks[2].timestamp > chains[2].network.lastUpdated

C15_Step ==
    (resp'.op = "send" /\ resp'.code = 200 /\ chains # <<>>) =>
        LET n == Len(chains)
            E == LastOf(chains'[n].blocks)
        IN  /\ chains'[n].blocks = Append(chains[n].blocks, E)
            /\ E.message = resp'.arg
            /\ \A i \in 1..n :
                  (chains[i] = get_majority_chain /\ chains'[i] # chains[i]) => i = n

\* C15 (append target): send-message extends the ledger stored last, whether or
\* not it is the ledger get_majority_chain returns; a stored ledger equal to the
\* one get_majority_chain returned before the call is extended only when it is
\* that last stored element.
C15_AppendTarget == [][C15_Step]_vars

\* of two different stored ledgers the first is the one get_majority_chain
\* returns and the second is the one that was extended
C15_Witness ==
    /\ resp.op = "send"
    /\ resp.code = 200
    /\ Len(chains) = 2
    /\ chains[1].blocks # SubSeq(chains[2].blocks, 1, Len(chains[2].blocks) - 1)
    /\ LastOf(chains[2].blocks).message = resp.arg
    /\ get_majority_chain = chains[1]
    /\ get_majority_chain # chains[2]

---------------------------------------------------------------------------
(* Validity of what is stored *)

\* C16 (store validity): in every reachable state every ledger of the store
\* has entries and passes is_chain_valid.
C16_StoreValidity ==
    \A i \in 1..Len(chains) :
        /\ chains[i].blocks # <<>>
        /\ is_chain_valid(chains[i].blocks)

---------------------------------------------------------------------------
(* Indexes of stored entries *)

Sequenced(blocks) == \A k \in 1..Len(blocks) : blocks[k].index = k

\* C17 as stated (index sequencing): in every ledger of the store the entry at
\* position i, counted from 0, has index i + 1, shared ledgers that
\* is_chain_valid accepted included.
C17_IndexSequencing ==
    \A i \in 1..Len(chains) : Sequenced(chains[i].blocks)

C17_FirstIndex ==
    \A i \in 1..Len(chains) : chains[i].blocks[1].index = 1

C17_Step ==
    /\ \A i \in 1..Len(chains) :
          Sequenced(chains[i].blocks) => Sequenced(chains'[i].blocks)
    /\ \A i \in (Len(chains) + 1)..Len(chains') :
          (resp'.op = "share" => Sequenced(resp'.arg.blocks))
              => Sequenced(chains'[i].blocks)

\* C17 amended (index sequencing): the first entry of every stored ledger has
\* index 1; a stored ledger whose entry at position i has index i + 1 keeps
\* that over every step, send-message included; and a ledger that enters the
\* store has it unless it is a shared ledger that does not have it itself.
C17_SequencingKept == []C17_FirstIndex /\ [][C17_Step]_vars

\* a shared ledger of two entries extended by send-message: indexes 1, 2, 3
C17_Witness ==
    /\ resp.op = "send"
    /\ resp.code = 200
    /\ Len(chains) = 1
    /\ Len(chains[1].blocks) = 3
    /\ chains[1].blocks[1] = PeerGenesis(0)
    /\ Sequenced(chains[1].blocks)

---------------------------------------------------------------------------
(* create-genesis and register-participant over a run *)

Untouched == chains = <<>> /\ participants = {}

C18_Step ==
    /\ resp'.op = "genesis" =>
          IF Untouched
          THEN /\ resp'.code = 200
               /\ Len(chains') = 1
               /\ Len(chains'[1].blocks) = 1
               /\ chains'[1].blocks[1].index = 1
               /\ chains'[1].blocks[1].previousHash = StrZero
               /\ participants' = participants
          ELSE /\ resp'.code = 400
               /\ Stored' = Stored
    /\ ~Untouched => ~Untouched'

\* C18 (genesis at most once): create-genesis succeeds only when the store and
\* the participant set are both empty, and then stores one ledger of one entry
\* with index 1 and previousHash "0"; in any other state it answers 400 and
\* changes nothing; and a store or participant set that holds something never
\* becomes empty again, so create-genesis succeeds at most once in a run and
\* never after a participant was registered or a proposal stored.
C18_GenesisOnce == [][C18_Step]_vars

\* create-genesis refused with an empty store and a participant registered
C18_Witness ==
    /\ resp.op = "genesis"
    /\ resp.code = 400
    /\ chains = <<>>
    /\ participants # {}

C19_Step ==
    /\ resp'.op = "register" =>
          LET p == <<resp'.arg.ipAddress, resp'.arg.uuid>>
          IN  IF p \in participants
              THEN /\ resp'.body.status = "error"
                   /\ Stored' = Stored
              ELSE /\ resp'.body.status = "success"
                   /\ participants' = participants \cup {p}
                   /\ chains' = chains
    /\ participants \subseteq participants'

\* C19 (participant registry): register-participant adds an (ipAddress, uuid)
\* pair that is not registered, so two identities that differ in one field are
\* both registered; for a pair that is registered it reports an error and the
\* participants, the store and the files stay as they are; and no operation
\* removes a participant.
C19_RegistryGrows == [][C19_Step]_vars

\* two identities with the same ipAddress registered, and one of them refused
\* when sent again
C19_Witness ==
    /\ resp.op = "register"
    /\ resp.body.status = "error"
    /\ <<resp.arg.ipAddress, resp.arg.uuid>> \in participants
    /\ \E p \in participants, q \in participants : p[1] = q[1] /\ p[2] # q[2]

===========================================================================
